---- MODULE Spec2Model ----
(***************************************************************************)
(* Model of crates/typst-cli/src/main.rs: the shortcut converter `main`    *)
(* (Markdown file name -> PDF) and the full-mode router `origin_main`.     *)
(*                                                                         *)
(* Strings that the code inspects (file names, fonts) are sequences of     *)
(* one-character strings, so that split(".") is computed, not assumed.     *)
(* Option<T> is modelled as a sequence of length 0 (None) or 1 (Some).     *)
(* The collaborators (compile, watch, query, fonts, the enabled update,    *)
(* setup_tracing) and the file system are external: their outcome is a     *)
(* nondeterministic choice, their observable effect is recorded in trace. *)
(***************************************************************************)
EXTENDS Naturals, Sequences, FiniteSets

VARIABLES
    mode,        \* which entry point runs: "main" or "origin_main"
    argv,        \* std::env::args(), program name first
    disk,        \* the file system: a set of <<path, content>> pairs
    pc,          \* position of the running entry point
    file_name,   \* main: let file_name
    font,        \* main: let font
    input,       \* main: let input (the derived stem)
    r_in,        \* main: let r#in (the synthesized document)
    cc,          \* main: let cc (the compile request)
    result,      \* main: the Result<()> it returns
    trace,       \* file-system operations and collaborator calls, in order
    ARGS,        \* origin_main: the parsed arguments (static ARGS)
    self_update, \* whether feature "self-update" is compiled in
    guard,       \* origin_main: let _guard
    res,         \* origin_main: let res
    EXIT,        \* thread-local EXIT cell
    stderr,      \* lines written to the standard error stream
    exit_code    \* what origin_main returned: None until it returns

vars == <<mode, argv, disk, pc, file_name, font, input, r_in, cc, result,
          trace, ARGS, self_update, guard, res, EXIT, stderr, exit_code>>

main_vars == <<file_name, font, input, r_in, cc, result>>
origin_vars == <<ARGS, self_update, guard, res, EXIT, stderr, exit_code>>

----------------------------------------------------------------------------
(* Bounds of the model *)

\* longest file name enumerated over Chars
MaxLen == 3
\* largest value of the opaque parameter carried by a Command
MaxParam == 1

----------------------------------------------------------------------------
(* Option, Result, ExitCode *)

None == <<>>
Some(x) == <<x>>
unwrap_or(o, d) == IF o = None THEN d ELSE o[1]

Ok == [ok |-> TRUE, msg |-> ""]
Err(m) == [ok |-> FALSE, msg |-> m]

SUCCESS == 0
FAILURE == 1

----------------------------------------------------------------------------
(* String literals of the source *)

tmp_file == <<"t", "y", "p", "s", "t", "_", "i", "n", "n", "e", "r", "_",
              "p", "r", "o", "c", "_", "i", "n", "t", "e", "r", "m", "e",
              "d", "i", "a", "t", "e", "_", "f", "i", "l", "e">>
HYKaiTiJ == <<"H", "Y", "K", "a", "i", "T", "i", "J">>
fonts_literal == <<"f", "o", "n", "t", "s">>
pdf_suffix == <<".", "p", "d", "f">>
NoFileSpecified == "No file specified"
FileNameError == "File name error"
UpdateDisabledMsg == "self-updating is not enabled for this executable, please update with the package manager or mechanism used for initial installation"

----------------------------------------------------------------------------
(* Inputs *)

Chars == {"x", "."}

RECURSIVE SeqsUpTo(_, _)
SeqsUpTo(S, n) ==
    IF n = 0 THEN {<<>>}
    ELSE LET shorter == SeqsUpTo(S, n - 1)
         IN  shorter \cup {Append(s, c) : s \in shorter, c \in S}

Prog == <<"m", "2", "p">>
ReportMd == <<"r", "e", "p", "o", "r", "t", ".", "m", "d">>
XYMd == <<"x", ".", "y", ".", "m", "d">>
Notes == <<"n", "o", "t", "e", "s">>
XPdf == <<"x", ".", "p", "d", "f">>

\* the empty name is left out: no file can have it
FileNames ==
    (SeqsUpTo(Chars, MaxLen) \ {<<>>})
        \cup {fonts_literal, tmp_file, tmp_file \o <<".", "m", "d">>,
              ReportMd, XYMd, Notes, XPdf}

FontNames == {<<"F">>}

ArgVectors ==
    {<<>>, <<Prog>>}
        \cup {<<Prog, f>> : f \in FileNames}
        \cup {<<Prog, f, g>> : f \in FileNames, g \in FontNames}

Tags == {"Compile", "Watch", "Query", "Fonts", "Update"}
Commands == [tag : Tags, params : 0..MaxParam]
NoCommand == [tag |-> "none", params |-> 0]

----------------------------------------------------------------------------
(* File system *)

Exists(d, p) == \E e \in d : e[1] = p
Content(d, p) == (CHOOSE e \in d : e[1] = p)[2]
Put(d, p, c) == {e \in d : e[1] # p} \cup {<<p, c>>}
Del(d, p) == {e \in d : e[1] # p}

\* one entry of trace
Event(op, src, dst, ok) == [op |-> op, src |-> src, dst |-> dst, ok |-> ok]

----------------------------------------------------------------------------
(* Pure helpers of main *)

\* Iterator::nth(n) on env::args(): the n-th argument, counting from 0
nth_from_one(a, n) == IF n >= 1 /\ Len(a) >= n THEN Some(a[n]) ELSE None
nth(a, n) == IF Len(a) > n THEN Some(a[n + 1]) ELSE None

\* str::split(sep) as the sequence of pieces it yields
RECURSIVE split(_, _)
split(s, sep) ==
    IF \E i \in 1..Len(s) : s[i] = sep
    THEN LET i == CHOOSE k \in 1..Len(s) :
                      s[k] = sep /\ \A j \in 1..(k - 1) : s[j] # sep
         IN  <<SubSeq(s, 1, i - 1)>> \o split(SubSeq(s, i + 1, Len(s)), sep)
    ELSE <<s>>

\* Iterator::next() on a fresh iterator
next(it) == IF it = <<>> THEN None ELSE Some(Head(it))

\* file_name.split(".").next()
stem_before_last_dot(name) ==
    LET ps == split(name, ".")
    IN  IF Len(ps) = 1 THEN Some(name)
        ELSE Some(SubSeq(name, 1, Len(name) - Len(ps[Len(ps)]) - 1))
stem(name) == next(split(name, "."))

\* format!(... {font} ... {file_name} ...)
format_r_in(f, name) == [font |-> f, path |-> name]
NoDoc == [font |-> <<>>, path |-> <<>>]

\* CompileCommand::default()
CompileCommandDefault == [input |-> <<>>, output |-> None, format |-> None]

\* file_name == "fonts"
is_fonts_typo(name) == name = <<"f", "o", "n", "t">>
is_fonts(name) == name = fonts_literal

----------------------------------------------------------------------------
(* Pure helpers of origin_main *)

\* the match of origin_main: the collaborator called for a command
collaborator_swapped(tag) ==
    CASE tag = "Compile" -> "compile"
      [] tag = "Watch" -> "compile"
      [] tag = "Query" -> "query"
      [] tag = "Fonts" -> "fonts"
      [] tag = "Update" -> "update"
collaborator(tag) ==
    CASE tag = "Compile" -> "compile"
      [] tag = "Watch" -> "watch"
      [] tag = "Query" -> "query"
      [] tag = "Fonts" -> "fonts"
      [] tag = "Update" -> "update"

\* mod update (not(feature = "self-update")): update(_: &UpdateCommand)
update_ok_on_default(params) == IF params = 0 THEN Ok ELSE Err(UpdateDisabledMsg)
update(params) == Err(UpdateDisabledMsg)

\* the results an external collaborator can return
Outcomes(name) == {Ok, Err(name)}

set_failed == FAILURE

\* print_error: the line it writes
print_error(msg) == <<"error", ": ", msg, ".">>

tracing_warning == <<"failed to initialize tracing">>

----------------------------------------------------------------------------
(* Initial states *)

InitMain ==
    /\ mode = "main"
    /\ argv \in ArgVectors
    /\ disk \in IF Len(argv) >= 2
                THEN {{}, {<<argv[2], "user">>}}
                ELSE {{}}
    /\ pc = "args"
    /\ ARGS = NoCommand
    /\ self_update = FALSE

InitOrigin ==
    /\ mode = "origin_main"
    /\ argv = <<Prog>>
    /\ disk = {}
    /\ pc = "tracing"
    /\ ARGS \in Commands
    /\ self_update \in BOOLEAN

Init ==
    /\ (InitMain \/ InitOrigin)
    /\ file_name = <<>>
    /\ font = <<>>
    /\ input = <<>>
    /\ r_in = NoDoc
    /\ cc = CompileCommandDefault
    /\ result = Ok
    /\ trace = <<>>
    /\ guard = None
    /\ res = Ok
    /\ EXIT = SUCCESS
    /\ stderr = <<>>
    /\ exit_code = None

----------------------------------------------------------------------------
(* main, lines 38-49: the arguments and the values derived from them *)

main_args ==
    /\ mode = "main" /\ pc = "args"
    /\ LET a1 == nth(argv, 1)
       IN  IF a1 = None
           THEN /\ result' = Err(NoFileSpecified)
                /\ pc' = "done"
                /\ UNCHANGED <<file_name, font, input, r_in>>
           ELSE LET st == stem(a1[1])
                IN  /\ file_name' = a1[1]
                    /\ font' = unwrap_or(nth(argv, 2), HYKaiTiJ)
                    /\ IF st = None
                       THEN /\ result' = Err(FileNameError)
                            /\ pc' = "done"
                            /\ UNCHANGED <<input, r_in>>
                       ELSE /\ input' = st[1]
                            /\ r_in' = format_r_in(font', file_name')
                            /\ pc' = "fonts"
                            /\ UNCHANGED result
    /\ UNCHANGED <<mode, argv, disk, cc, trace>>
    /\ UNCHANGED origin_vars

(* main, lines 50-53: the "fonts" special case *)
main_fonts ==
    /\ mode = "main" /\ pc = "fonts"
    /\ IF is_fonts(file_name)
       THEN \E r \in Outcomes("fonts") :
               /\ trace' = Append(trace, Event("fonts", <<>>, <<>>, r.ok))
               /\ result' = r
               /\ pc' = "done"
       ELSE /\ pc' = "write"
            /\ UNCHANGED <<trace, result>>
    /\ UNCHANGED <<mode, argv, disk, file_name, font, input, r_in, cc>>
    /\ UNCHANGED origin_vars

(* main, line 54: fs::write(tmp_file, r#in)? *)
main_write ==
    /\ mode = "main" /\ pc = "write"
    /\ \E ok \in BOOLEAN :
          /\ trace' = Append(trace, Event("write", <<>>, tmp_file, ok))
          /\ IF ok
             THEN /\ disk' = Put(disk, tmp_file, "doc")
                  /\ pc' = "compile"
                  /\ UNCHANGED result
             ELSE /\ result' = Err("io")
                  /\ pc' = "done"
                  /\ UNCHANGED disk
    /\ UNCHANGED <<mode, argv, file_name, font, input, r_in, cc>>
    /\ UNCHANGED origin_vars

(* main, lines 55-59: the compile request and compile(cc)? *)
main_compile_cleanup ==
    /\ mode = "main" /\ pc = "compile"
    /\ cc' = [input |-> tmp_file, output |-> Some(input), format |-> Some("Pdf")]
    /\ \E r \in Outcomes("compile") :
          /\ trace' = Append(trace, Event("compile", cc'.input, cc'.output[1], r.ok))
          /\ IF r.ok
             THEN /\ disk' = Put(disk, cc'.output[1], "pdf")
                  /\ pc' = "remove"
                  /\ UNCHANGED result
             ELSE /\ result' = r
                  /\ pc' = "done"
                  /\ disk' = Del(disk, tmp_file)
    /\ UNCHANGED <<mode, argv, file_name, font, input, r_in>>
    /\ UNCHANGED origin_vars
main_compile ==
    /\ mode = "main" /\ pc = "compile"
    /\ cc' = [input |-> tmp_file, output |-> Some(input), format |-> Some("Pdf")]
    /\ \E r \in Outcomes("compile") :
          /\ trace' = Append(trace, Event("compile", cc'.input, cc'.output[1], r.ok))
          /\ IF r.ok
             THEN /\ disk' = Put(disk, cc'.output[1], "pdf")
                  /\ pc' = "remove"
                  /\ UNCHANGED result
             ELSE /\ result' = r
                  /\ pc' = "done"
                  /\ UNCHANGED disk
    /\ UNCHANGED <<mode, argv, file_name, font, input, r_in>>
    /\ UNCHANGED origin_vars

(* main, line 60: fs::remove_file(tmp_file)? ; it fails on a missing file *)
main_remove_file_skipped ==
    /\ mode = "main" /\ pc = "remove"
    /\ pc' = "rename"
    /\ UNCHANGED <<mode, argv, disk, trace, file_name, font, input, r_in, cc, result>>
    /\ UNCHANGED origin_vars
main_remove_file ==
    /\ mode = "main" /\ pc = "remove"
    /\ \E ok \in (IF Exists(disk, tmp_file) THEN BOOLEAN ELSE {FALSE}) :
          /\ trace' = Append(trace, Event("remove", tmp_file, <<>>, ok))
          /\ IF ok
             THEN /\ disk' = Del(disk, tmp_file)
                  /\ pc' = "rename"
                  /\ UNCHANGED result
             ELSE /\ result' = Err("io")
                  /\ pc' = "done"
                  /\ UNCHANGED disk
    /\ UNCHANGED <<mode, argv, file_name, font, input, r_in, cc>>
    /\ UNCHANGED origin_vars

(* main, lines 61-62: fs::rename(input, format!("{input}.pdf"))? ; Ok(()) *)
main_rename ==
    /\ mode = "main" /\ pc = "rename"
    /\ LET to == input \o pdf_suffix
       IN  \E ok \in (IF Exists(disk, input) THEN BOOLEAN ELSE {FALSE}) :
              /\ trace' = Append(trace, Event("rename", input, to, ok))
              /\ IF ok
                 THEN /\ disk' = Put(Del(disk, input), to, Content(disk, input))
                      /\ UNCHANGED result
                 ELSE /\ result' = Err("io")
                      /\ UNCHANGED disk
              /\ pc' = "done"
    /\ UNCHANGED <<mode, argv, file_name, font, input, r_in, cc>>
    /\ UNCHANGED origin_vars

----------------------------------------------------------------------------
(* origin_main, lines 67-73: setup_tracing; a failure is only reported *)

origin_main_setup_tracing_fatal ==
    /\ mode = "origin_main" /\ pc = "tracing"
    /\ \E ok \in BOOLEAN :
          IF ok
          THEN /\ guard' = Some("guard")
               /\ pc' = "match"
               /\ UNCHANGED <<stderr, EXIT>>
          ELSE /\ guard' = None
               /\ stderr' = Append(stderr, tracing_warning)
               /\ EXIT' = set_failed
               /\ pc' = "return"
    /\ UNCHANGED <<mode, argv, disk, trace, ARGS, self_update, res, exit_code>>
    /\ UNCHANGED main_vars
origin_main_setup_tracing ==
    /\ mode = "origin_main" /\ pc = "tracing"
    /\ \E ok \in BOOLEAN :
          IF ok
          THEN /\ guard' = Some("guard")
               /\ UNCHANGED stderr
          ELSE /\ guard' = None
               /\ stderr' = Append(stderr, tracing_warning)
    /\ pc' = "match"
    /\ UNCHANGED <<mode, argv, disk, trace, ARGS, self_update, res, EXIT, exit_code>>
    /\ UNCHANGED main_vars

(* origin_main, lines 75-81: the match on ARGS.command *)
origin_main_match ==
    /\ mode = "origin_main" /\ pc = "match"
    /\ LET name == collaborator(ARGS.tag)
       IN  \E r \in (IF name = "update" /\ ~self_update
                     THEN {update(ARGS.params)}
                     ELSE Outcomes(name)) :
              /\ trace' = Append(trace, Event(name, <<>>, <<>>, r.ok))
              /\ res' = r
    /\ pc' = "report"
    /\ UNCHANGED <<mode, argv, disk, ARGS, self_update, guard, EXIT, stderr, exit_code>>
    /\ UNCHANGED main_vars

(* origin_main, lines 83-86: set_failed and print_error(..).expect(..) *)
origin_main_report ==
    /\ mode = "origin_main" /\ pc = "report"
    /\ IF ~res.ok
       THEN /\ EXIT' = set_failed
            /\ \E printed \in BOOLEAN :
                  IF printed
                  THEN /\ stderr' = Append(stderr, print_error(res.msg))
                       /\ pc' = "return"
                  ELSE /\ pc' = "panicked"
                       /\ UNCHANGED stderr
       ELSE /\ pc' = "return"
            /\ UNCHANGED <<EXIT, stderr>>
    /\ UNCHANGED <<mode, argv, disk, trace, ARGS, self_update, guard, res, exit_code>>
    /\ UNCHANGED main_vars

(* origin_main, line 88: EXIT.with(|cell| cell.get()) *)
origin_main_return ==
    /\ mode = "origin_main" /\ pc = "return"
    /\ exit_code' = Some(EXIT)
    /\ pc' = "returned"
    /\ UNCHANGED <<mode, argv, disk, trace, ARGS, self_update, guard, res, EXIT, stderr>>
    /\ UNCHANGED main_vars

----------------------------------------------------------------------------

Next ==
    \/ main_args
    \/ main_fonts
    \/ main_write
    \/ main_compile
    \/ main_remove_file
    \/ main_rename
    \/ origin_main_setup_tracing
    \/ origin_main_match
    \/ origin_main_report
    \/ origin_main_return

Spec == Init /\ [][Next]_vars

----------------------------------------------------------------------------
(* Vocabulary of the properties, independent of the operators above *)

FsOpNames == {"write", "remove", "rename"}
CollaboratorNames == {"compile", "watch", "query", "fonts", "update"}

HasDot(s) == \E i \in 1..Len(s) : s[i] = "."

\* p is the part of s before the first "." of s
IsBeforeFirstDot(p, s) ==
    /\ Len(p) < Len(s)
    /\ p = SubSeq(s, 1, Len(p))
    /\ s[Len(p) + 1] = "."
    /\ \A i \in 1..Len(p) : p[i] # "."

\* event e touched path p: created, overwrote, deleted or moved it
Touches(e, p) ==
    /\ e.ok
    /\ \/ e.op \in {"write", "compile", "rename"} /\ e.dst = p
       \/ e.op \in {"remove", "rename"} /\ e.src = p

TracingFailed == stderr # <<>> /\ stderr[1] = tracing_warning

AfterMatch == pc \in {"report", "return", "returned", "panicked"}

----------------------------------------------------------------------------
(* C1: in full mode exactly one collaborator is invoked, the one matching
   the command's tag, and the exit code origin_main returns is 0 when that
   collaborator succeeded and 1 when it failed. *)
C1_RouterInvokesOneAndReflectsResult ==
    mode = "origin_main" =>
        /\ pc \in {"tracing", "match"} => trace = <<>>
        /\ AfterMatch =>
              /\ Len(trace) = 1
              /\ ARGS.tag = "Compile" => trace[1].op = "compile"
              /\ ARGS.tag = "Watch" => trace[1].op = "watch"
              /\ ARGS.tag = "Query" => trace[1].op = "query"
              /\ ARGS.tag = "Fonts" => trace[1].op = "fonts"
              /\ ARGS.tag = "Update" => trace[1].op = "update"
              /\ res.ok = trace[1].ok
        /\ pc = "returned" =>
              exit_code = Some(IF trace[1].ok THEN 0 ELSE 1)

C1_Witness ==
    /\ mode = "origin_main" /\ pc = "returned"
    /\ ARGS.tag = "Watch"
    /\ trace = <<Event("watch", <<>>, <<>>, FALSE)>>
    /\ exit_code = Some(1)

(* C2: a run of main in which every step succeeds ends with no intermediate
   file on disk and with {derivedStem}.pdf on disk; the intermediate file is
   written before compile is invoked and deleted after compile returned. *)
C2_SuccessLeavesPdfAndNoIntermediate ==
    (mode = "main" /\ pc = "done" /\ result.ok /\ Len(argv) >= 2
        /\ argv[2] # fonts_literal) =>
        /\ ~Exists(disk, tmp_file)
        /\ Exists(disk, input \o pdf_suffix)
        /\ Content(disk, input \o pdf_suffix) = "pdf"
        /\ Len(trace) = 4
        /\ trace[1] = Event("write", <<>>, tmp_file, TRUE)
        /\ trace[2] = Event("compile", tmp_file, input, TRUE)
        /\ trace[3] = Event("remove", tmp_file, <<>>, TRUE)
        /\ trace[4] = Event("rename", input, input \o pdf_suffix, TRUE)

C2_Witness ==
    /\ mode = "main" /\ pc = "done" /\ result.ok
    /\ Len(argv) >= 2 /\ argv[2] = ReportMd
    /\ r_in = [font |-> HYKaiTiJ, path |-> ReportMd]
    /\ ~Exists(disk, tmp_file)
    /\ Exists(disk, <<"r", "e", "p", "o", "r", "t", ".", "p", "d", "f">>)

(* C3: when argv has no second element, main fails with "No file specified",
   performs no file-system write, delete or rename and invokes no
   collaborator. *)
C3_NoFileSpecified ==
    (mode = "main" /\ Len(argv) < 2) =>
        /\ trace = <<>>
        /\ disk = {}
        /\ pc \in {"args", "done"}
        /\ pc = "done" => result = Err("No file specified")

C3_Witness ==
    /\ mode = "main" /\ pc = "done"
    /\ argv = <<Prog>>
    /\ result = Err("No file specified")

(* C4: for an input file name without "." main fails with "File name error"
   and performs no file-system write. *)
C4_NoDotFails ==
    (mode = "main" /\ Len(argv) >= 2 /\ ~HasDot(argv[2])) =>
        /\ \A i \in DOMAIN trace : trace[i].op # "write"
        /\ pc # "args" => (pc = "done" /\ result = Err("File name error"))

(* C5: when argv[1] is exactly "fonts", main invokes font enumeration and
   returns its result; the intermediate file is never created or deleted,
   compile is never invoked and nothing is renamed. *)
C5_FontsShortcut ==
    (mode = "main" /\ Len(argv) >= 2 /\ argv[2] = <<"f", "o", "n", "t", "s">>) =>
        /\ \A i \in DOMAIN trace : trace[i].op = "fonts"
        /\ Len(trace) <= 1
        /\ ~Exists(disk, tmp_file)
        /\ pc \in {"args", "fonts", "done"}
        /\ pc = "done" =>
              /\ Len(trace) = 1
              /\ result.ok = trace[1].ok

C5_Witness ==
    /\ mode = "main" /\ pc = "done"
    /\ Len(argv) >= 2 /\ argv[2] = <<"f", "o", "n", "t", "s">>
    /\ trace = <<Event("fonts", <<>>, <<>>, TRUE)>>
    /\ result = Ok
    /\ disk = {<<argv[2], "user">>}

(* C6: for an input file name with at least one ".", the derived stem is the
   part before the first ".", the compile request's output path is exactly
   that stem, and the output is renamed to {stem}.pdf. *)
C6_StemIsBeforeFirstDot ==
    (mode = "main" /\ Len(argv) >= 2 /\ HasDot(argv[2]) /\ pc # "args") =>
        /\ IsBeforeFirstDot(input, argv[2])
        /\ \A i \in DOMAIN trace :
              /\ trace[i].op = "compile" =>
                    /\ IsBeforeFirstDot(trace[i].dst, argv[2])
                    /\ cc.output = Some(trace[i].dst)
              /\ trace[i].op = "rename" =>
                    /\ IsBeforeFirstDot(trace[i].src, argv[2])
                    /\ trace[i].dst = trace[i].src \o <<".", "p", "d", "f">>
        /\ (pc = "done" /\ result.ok) =>
              \E p \in {e[1] : e \in disk} :
                  \E q \in {input} :
                      /\ IsBeforeFirstDot(q, argv[2])
                      /\ p = q \o <<".", "p", "d", "f">>
        /\ (pc = "done" /\ result.ok /\ argv[2] = XYMd) => Exists(disk, XPdf)

C6_Witness ==
    /\ mode = "main" /\ pc = "done" /\ result.ok
    /\ Len(argv) >= 2 /\ argv[2] = XYMd
    /\ input = <<"x">>
    /\ trace[2].dst = <<"x">>
    /\ Exists(disk, XPdf)

(* C7: in full mode a failure of setup_tracing neither changes the exit
   status nor prevents the command from running: after it, the collaborator
   matching the command is still invoked and the exit code returned is still
   determined by that collaborator's result alone. *)
C7_TracingFailureIsSwallowed ==
    (mode = "origin_main" /\ TracingFailed) =>
        /\ guard = None
        /\ pc = "match" => (EXIT = SUCCESS /\ trace = <<>>)
        /\ pc \in {"return", "returned"} =>
              /\ Len(trace) = 1
              /\ trace[1].op \in CollaboratorNames
              /\ EXIT = (IF trace[1].ok THEN SUCCESS ELSE FAILURE)
        /\ pc = "returned" => exit_code = Some(IF trace[1].ok THEN SUCCESS ELSE FAILURE)

C7_Witness ==
    /\ mode = "origin_main" /\ pc = "returned"
    /\ TracingFailed
    /\ Len(trace) = 1 /\ trace[1].ok
    /\ exit_code = Some(SUCCESS)

(* C8: with self-update disabled, Update always returns a failure carrying
   the same fixed message, whatever its parameters; it never succeeds. *)
C8_UpdateStubAlwaysFails ==
    (mode = "origin_main" /\ ~self_update /\ ARGS.tag = "Update" /\ AfterMatch) =>
        /\ ~res.ok
        /\ res.msg = UpdateDisabledMsg
        /\ trace[1].ok = FALSE
        /\ pc = "returned" => exit_code = Some(FAILURE)

C8_Witness ==
    /\ mode = "origin_main" /\ ~self_update
    /\ ARGS.tag = "Update" /\ ARGS.params # 0
    /\ pc = "returned"
    /\ res = Err(UpdateDisabledMsg)
    /\ stderr # <<>>
    /\ stderr[Len(stderr)] = <<"error", ": ", UpdateDisabledMsg, ".">>

(* C9: when compile fails after the intermediate file was written, main
   stops there: the error is returned, the intermediate file stays on disk
   and no delete or rename is attempted; the intermediate file is deleted
   only after a successful compile. *)
C9_CompileFailureLeavesIntermediate ==
    mode = "main" =>
        /\ \A i \in DOMAIN trace :
              (trace[i].op = "compile" /\ ~trace[i].ok) =>
                  /\ i = Len(trace)
                  /\ pc = "done"
                  /\ ~result.ok
                  /\ Exists(disk, tmp_file)
        /\ \A i \in DOMAIN trace :
              trace[i].op \in {"remove", "rename"} =>
                  \E j \in 1..(i - 1) : trace[j].op = "compile" /\ trace[j].ok

C9_Witness ==
    /\ mode = "main" /\ pc = "done"
    /\ Len(trace) = 2
    /\ trace[1] = Event("write", <<>>, tmp_file, TRUE)
    /\ trace[2].op = "compile" /\ ~trace[2].ok
    /\ result = Err("compile")
    /\ Content(disk, tmp_file) = "doc"

(* C10: in every run of main that reaches the compile step, the output path
   handed to the compiler differs from the input file name, and no step
   (compile output, delete, rename) overwrites, deletes or renames the
   user's input file. *)
C10_InputFileUntouched ==
    (mode = "main" /\ \E i \in DOMAIN trace : trace[i].op = "compile") =>
        /\ \A i \in DOMAIN trace :
              trace[i].op = "compile" => trace[i].dst # argv[2]
        /\ \A i \in DOMAIN trace :
              trace[i].op \in {"compile", "remove", "rename"} =>
                  ~Touches(trace[i], argv[2])

====
